---- MODULE Spec2Model ----
(***************************************************************************)
(* State-machine model of data_analyzer.py: the Excel table loaded by      *)
(* load_data, the two figure builders (make_original_figure,               *)
(* make_accumulated_figure) and the Dash application built by create_app   *)
(* with its two callbacks, update_figures and update_date_range.           *)
(*                                                                         *)
(* Column labels are written in ASCII: "date" is the column "날짜", "index" *)
(* is "지수", "foreign" is "외국인", "individual" is "개인" and            *)
(* "institution" is "기관종합".                                            *)
(***************************************************************************)
EXTENDS Integers, Sequences, FiniteSets, TLC

VARIABLES
    df,           \* the DataFrame returned by load_data: [cols, rows]
    phase,        \* "loaded" | "running" | "failed" (create_app raised)
    now,          \* the calendar day the wall clock shows
    today,        \* create_app's local `today`, captured by update_date_range
    min_date,     \* create_app's local `min_date`
    max_date,     \* create_app's local `max_date`
    start_date,   \* property "date" of the picker "start-date"
    end_date,     \* property "date" of the picker "end-date"
    filtered_df,  \* update_figures' local `filtered_df` of its last run
    raw_graph,    \* property "figure" of the graph "raw-graph"
    acc_graph,    \* property "figure" of the graph "acc-graph"
    pending,      \* the callback Dash has queued: "none" | "init" | "figures"
    last          \* what the last step did (observation only)

vars == <<df, phase, now, today, min_date, max_date, start_date, end_date,
          filtered_df, raw_graph, acc_graph, pending, last>>

-----------------------------------------------------------------------------
(* Bounds of the model *)

MaxRows == 2
MaxElapsed == 1

\* Calendar days that occur as the day of a row's timestamp.
Days == {0, 8}

\* Calendar days the wall clock may show when the application starts.
StartDays == {0, 8, 12}

-----------------------------------------------------------------------------
(* Values *)

DateCol == "date"
Primary == "index"
Secondaries == <<"foreign", "individual", "institution">>
SeriesNames == {Primary} \cup {Secondaries[i] : i \in 1..Len(Secondaries)}

\* pandas.NaT, as a timestamp and as the result of NaT.date()
NaT == [nat |-> TRUE, day |-> 0, tod |-> 0]
NaTDate == [nat |-> TRUE, day |-> 0]

Timestamp(d, t) == [nat |-> FALSE, day |-> d, tod |-> t]
Date(d) == [nat |-> FALSE, day |-> d]

\* Cells of a series column as read from the sheet.
Num(v) == [k |-> "num", v |-> v]        \* a number
NumStr(v) == [k |-> "numstr", v |-> v]  \* a string that spells a number
StrX == [k |-> "str", v |-> 0]          \* a string that spells no number
NaN == [k |-> "nan", v |-> 0]           \* an empty cell / float NaN

\* Values of a date picker's "date" property as the browser sends them.
None == [k |-> "None", day |-> 0]
Iso(d) == [k |-> "iso", day |-> d]
NaTStr == [k |-> "NaT", day |-> 0]

\* go.Figure() before any trace is added (the graphs before create_app).
NoFigure == [traces |-> <<>>]

-----------------------------------------------------------------------------
(* pandas / datetime helpers *)

\* Timestamp.date() and Series.dt.date: the time of day is dropped.
DateOf(ts) == IF ts.nat THEN NaTDate ELSE Date(ts.day)

\* date.isoformat(); NaT.isoformat() is the string "NaT".
IsoFormat(d) == IF d.nat THEN NaTStr ELSE Iso(d.day)

\* pd.Timestamp(s).date() of a picker string.
ParseDate(s) == IF s.k = "iso" THEN Date(s.day) ELSE NaTDate

\* The JSON the layout sends for a picker's initial `date`: a date as its ISO
\* string, NaT as null.
ToJson(d) == IF d.nat THEN None ELSE Iso(d.day)

\* Elementwise comparison of an object column with a scalar
\* (a null on either side compares False).
GE(x, val) == ~x.nat /\ ~val.nat /\ x.day >= val.day
LE(x, val) == ~x.nat /\ ~val.nat /\ x.day <= val.day

\* pd.to_numeric(series, errors="coerce") on one cell.
ToNumeric(c) == IF c.k \in {"num", "numstr"} THEN Num(c.v) ELSE NaN

\* Series.fillna(0) on one value.
FillNa0(c) == IF c.k = "nan" THEN Num(0) ELSE c

\* Series.cumsum(): a running total, left to right; a NaN stays NaN and is
\* skipped by the total.
RECURSIVE CumSumFrom(_, _, _)
CumSumFrom(s, i, acc) ==
    IF i > Len(s) THEN <<>>
    ELSE IF s[i].k = "nan" THEN <<NaN>> \o CumSumFrom(s, i + 1, acc)
    ELSE <<Num(acc + s[i].v)>> \o CumSumFrom(s, i + 1, acc + s[i].v)

CumSum(s) == CumSumFrom(s, 1, 0)

\* The two conversions applied to a whole series.
ToNumericSeries(s) == [i \in 1..Len(s) |-> ToNumeric(s[i])]
FillNa0Series(s) == [i \in 1..Len(s) |-> FillNa0(s[i])]

\* df[name]: the cells of one column, in row order.
Column(d, name) == [i \in 1..Len(d.rows) |-> d.rows[i][name]]

\* df.get("date"): the column, or None when the table has none.
GetDate(d) ==
    IF DateCol \in d.cols THEN [present |-> TRUE, vals |-> Column(d, DateCol)]
    ELSE [present |-> FALSE, vals |-> <<>>]

\* Series.min() / Series.max() of the date column, skipping NaT; NaT if none.
ValidDays(d) == {d.rows[i][DateCol].day : i \in {j \in 1..Len(d.rows) : ~d.rows[j][DateCol].nat}}

SeriesMin(d) ==
    IF ValidDays(d) = {} THEN NaT
    ELSE Timestamp(CHOOSE m \in ValidDays(d) : \A o \in ValidDays(d) : m <= o, 0)

SeriesMax(d) ==
    IF ValidDays(d) = {} THEN NaT
    ELSE Timestamp(CHOOSE m \in ValidDays(d) : \A o \in ValidDays(d) : m >= o, 0)

-----------------------------------------------------------------------------
(* The figure builders *)

Trace(name, x, y, yaxis) == [name |-> name, x |-> x, y |-> y, yaxis |-> yaxis]

\* Variant: a missing primary column is drawn as an empty placeholder trace.
PrimaryTraces_Placeholder(d) ==
    <<Trace(Primary, GetDate(d),
            IF Primary \in d.cols THEN Column(d, Primary) ELSE <<>>, "y")>>

\* The left-axis trace of both figures: the column as it is.
PrimaryTraces(d) ==
    IF Primary \in d.cols
    THEN <<Trace(Primary, GetDate(d), Column(d, Primary), "y")>>
    ELSE <<>>

\* Variant: the raw series fills its gaps with 0 as the accumulated one does.
RawSeries_Zero(d, name) == FillNa0Series(ToNumericSeries(Column(d, name)))

\* pd.to_numeric(df[name], errors="coerce")
RawSeries(d, name) == ToNumericSeries(Column(d, name))

\* Variant: the running total is taken without fillna(0).
AccSeries_NoFill(d, name) == CumSum(ToNumericSeries(Column(d, name)))

\* pd.to_numeric(df[name], errors="coerce").fillna(0).cumsum()
AccSeries(d, name) == CumSum(FillNa0Series(ToNumericSeries(Column(d, name))))

RECURSIVE RawTraces(_, _)
RawTraces(d, i) ==
    IF i > Len(Secondaries) THEN <<>>
    ELSE (IF Secondaries[i] \in d.cols
          THEN <<Trace(Secondaries[i], GetDate(d), RawSeries(d, Secondaries[i]), "y2")>>
          ELSE <<>>) \o RawTraces(d, i + 1)

\* The trace names of the accumulated figure carry the suffix " (누적)".
AccName(name) == name \o " (acc)"

RECURSIVE AccTraces(_, _)
AccTraces(d, i) ==
    IF i > Len(Secondaries) THEN <<>>
    ELSE (IF Secondaries[i] \in d.cols
          THEN <<Trace(AccName(Secondaries[i]), GetDate(d), AccSeries(d, Secondaries[i]), "y2")>>
          ELSE <<>>) \o AccTraces(d, i + 1)

make_original_figure(d) == [traces |-> PrimaryTraces(d) \o RawTraces(d, 1)]

make_accumulated_figure(d) == [traces |-> PrimaryTraces(d) \o AccTraces(d, 1)]

-----------------------------------------------------------------------------
(* The tables the model loads *)

\* Each series column holds its own numbers: the row's number plus the
\* column's offset.
ColumnOffset(name) ==
    CASE name = "index" -> 0
      [] name = "foreign" -> 1
      [] name = "individual" -> 2
      [] OTHER -> 3

CellFor(c, name) == IF c.k \in {"num", "numstr"} THEN [c EXCEPT !.v = c.v + ColumnOffset(name)] ELSE c

\* The date cells of the loaded tables: an unparseable date, and timestamps
\* on the days of Days; the time of day 0 is 00:00 and 1 is 23:59.
DateCells == {NaT, Timestamp(0, 0), Timestamp(8, 0), Timestamp(8, 1)}

RowsOf(cs, cells, dates) ==
    {[c \in cs |-> IF c = DateCol THEN dc ELSE CellFor(v, c)] :
        dc \in (IF DateCol \in cs THEN dates ELSE {NaT}), v \in cells}

Tables(colsets, cells, dates, n) ==
    UNION {{[cols |-> cs, rows |-> r] :
                r \in UNION {[1..k -> RowsOf(cs, cells, dates)] : k \in 0..n}} : cs \in colsets}

AllColumns == {DateCol} \cup SeriesNames

\* The tables the application is started on: every column present, or every
\* column but the date; dates unparseable, on day 0 or late on day 8.
AppTables ==
    Tables({AllColumns, SeriesNames}, {Num(5), Num(3), StrX},
           {NaT, Timestamp(0, 0), Timestamp(8, 1)}, MaxRows)

\* The tables the callbacks and figure builders are called on directly:
\* every set of columns with every kind of cell, and every kind of date.
CallTables ==
    Tables(SUBSET AllColumns, {Num(5), Num(3), NumStr(4), StrX, NaN},
           {NaT, Timestamp(8, 0)}, MaxRows)
    \cup Tables({AllColumns}, {Num(5), StrX}, DateCells, MaxRows)

-----------------------------------------------------------------------------
(* create_app and its callbacks *)

\* Variant: the mask compares the timestamps, time of day included, with the
\* bounds at 00:00.
InMask_KeepTime(d, i, s, e) ==
    /\ GE(DateOf(d.rows[i][DateCol]), ParseDate(s))
    /\ LE(DateOf(d.rows[i][DateCol]), ParseDate(e))
    /\ ~(d.rows[i][DateCol].day = ParseDate(e).day /\ d.rows[i][DateCol].tod > 0)

\* The mask of update_figures, row by row.
InMask(d, i, s, e) ==
    /\ GE(DateOf(d.rows[i][DateCol]), ParseDate(s))
    /\ LE(DateOf(d.rows[i][DateCol]), ParseDate(e))

RECURSIVE Select(_, _, _, _)
Select(d, i, s, e) ==
    IF i > Len(d.rows) THEN <<>>
    ELSE (IF InMask(d, i, s, e) THEN <<d.rows[i]>> ELSE <<>>) \o Select(d, i + 1, s, e)

Filter(d, s, e) ==
    IF s # None /\ e # None THEN [cols |-> d.cols, rows |-> Select(d, 1, s, e)]
    ELSE d

Preset(n) == [all |-> FALSE, days |-> n]

date_presets ==
    [p \in {"all", "7d", "30d", "90d", "1y", "2y", "3y", "4y", "5y", "10y"} |->
        CASE p = "all" -> [all |-> TRUE, days |-> 0]
          [] p = "7d" -> Preset(7)
          [] p = "30d" -> Preset(30)
          [] p = "90d" -> Preset(90)
          [] p = "1y" -> Preset(365)
          [] p = "2y" -> Preset(730)
          [] p = "3y" -> Preset(1095)
          [] p = "4y" -> Preset(1460)
          [] p = "5y" -> Preset(1825)
          [] p = "10y" -> Preset(3650)]

\* Values the preset dropdown's "value" may carry: its options, and one value
\* that is no option.
PresetInputs == DOMAIN date_presets \cup {"bogus"}

\* max((today - pd.Timedelta(days=days)), min_date) for a date min_date.
StartOf(days) ==
    IF today.day - days >= min_date.day THEN Date(today.day - days) ELSE min_date

Init ==
    /\ df \in AppTables
    /\ phase = "loaded"
    /\ now \in StartDays
    /\ today = NaTDate
    /\ min_date = NaTDate
    /\ max_date = NaTDate
    /\ start_date = None
    /\ end_date = None
    /\ filtered_df = df
    /\ raw_graph = NoFigure
    /\ acc_graph = NoFigure
    /\ pending = "none"
    /\ last = "load_data"

\* create_app up to its return; a table without the date column raises
\* KeyError at df["date"].
create_app ==
    /\ phase = "loaded"
    /\ IF DateCol \notin df.cols
       THEN /\ phase' = "failed"
            /\ last' = "KeyError"
            /\ UNCHANGED <<df, now, today, min_date, max_date, start_date, end_date,
                           filtered_df, raw_graph, acc_graph, pending>>
       ELSE /\ phase' = "running"
            /\ min_date' = DateOf(SeriesMin(df))
            /\ max_date' = DateOf(SeriesMax(df))
            /\ raw_graph' = make_original_figure(df)
            /\ acc_graph' = make_accumulated_figure(df)
            /\ today' = Date(now)
            /\ start_date' = ToJson(min_date')
            /\ end_date' = ToJson(max_date')
            /\ pending' = "init"
            /\ last' = "create_app"
            /\ UNCHANGED <<df, now, filtered_df>>

\* Variant: the accumulated figure is rebuilt from the whole table.
UpdateFigures_AccFromDf(s, e) ==
    /\ filtered_df' = Filter(df, s, e)
    /\ raw_graph' = make_original_figure(filtered_df')
    /\ acc_graph' = make_accumulated_figure(df)
    /\ last' = "update_figures"

\* The body of update_figures, called with the two pickers' dates.
UpdateFigures(s, e) ==
    /\ filtered_df' = Filter(df, s, e)
    /\ raw_graph' = make_original_figure(filtered_df')
    /\ acc_graph' = make_accumulated_figure(filtered_df')
    /\ last' = "update_figures"

\* Dash runs update_figures after a write to either picker.
update_figures ==
    /\ phase = "running"
    /\ pending = "figures"
    /\ UpdateFigures(start_date, end_date)
    /\ pending' = "none"
    /\ UNCHANGED <<df, phase, now, today, min_date, max_date, start_date, end_date>>

\* The callback returned (no_update, no_update), or raised: nothing is written.
NothingWritten(what) ==
    /\ pending' = "none"
    /\ last' = what
    /\ UNCHANGED <<df, phase, now, today, min_date, max_date, start_date, end_date,
                   filtered_df, raw_graph, acc_graph>>

Written(s, e, what) ==
    /\ start_date' = s
    /\ end_date' = e
    /\ pending' = "figures"
    /\ last' = what
    /\ UNCHANGED <<df, phase, now, today, min_date, max_date,
                   filtered_df, raw_graph, acc_graph>>

\* Variant: a value that is no preset is taken as "all".
update_date_range_Fallback(preset) ==
    /\ phase = "running"
    /\ pending = "none" \/ (pending = "init" /\ preset = "all")
    /\ IF preset \notin DOMAIN date_presets \/ date_presets[preset].all
       THEN Written(IsoFormat(min_date), IsoFormat(max_date), "all")
       ELSE IF min_date.nat
       THEN \/ NothingWritten("TypeError")
            \/ Written(IsoFormat(Date(today.day - date_presets[preset].days)),
                       IsoFormat(today), "durational")
       ELSE Written(IsoFormat(StartOf(date_presets[preset].days)),
                    IsoFormat(today), "durational")

update_date_range(preset) ==
    /\ phase = "running"
    /\ pending = "none" \/ (pending = "init" /\ preset = "all")
    /\ IF preset \notin DOMAIN date_presets
       THEN NothingWritten("no_update")
       ELSE IF date_presets[preset].all
       THEN Written(IsoFormat(min_date), IsoFormat(max_date), "all")
       ELSE IF min_date.nat
       THEN \* NaT > date: TypeError in current pandas, False in old ones
            \/ NothingWritten("TypeError")
            \/ Written(IsoFormat(Date(today.day - date_presets[preset].days)),
                       IsoFormat(today), "durational")
       ELSE Written(IsoFormat(StartOf(date_presets[preset].days)),
                    IsoFormat(today), "durational")

\* The days a picker offers: those between min_date_allowed and
\* max_date_allowed (every day when these are null).
Allowed(d) == min_date.nat \/ (min_date.day <= d /\ d <= max_date.day)

PickStart(d) ==
    /\ phase = "running"
    /\ pending = "none"
    /\ Allowed(d)
    /\ Written(Iso(d), end_date, "pick")

PickEnd(d) ==
    /\ phase = "running"
    /\ pending = "none"
    /\ Allowed(d)
    /\ Written(start_date, Iso(d), "pick")

\* A day passes while the server runs.
Tick ==
    /\ phase = "running"
    /\ pending = "none"
    /\ now < today.day + MaxElapsed
    /\ now' = now + 1
    /\ last' = "tick"
    /\ UNCHANGED <<df, phase, today, min_date, max_date, start_date, end_date,
                   filtered_df, raw_graph, acc_graph, pending>>

Next ==
    \/ create_app
    \/ update_figures
    \/ \E preset \in PresetInputs : update_date_range(preset)
    \/ \E d \in Days : PickStart(d)
    \/ \E d \in Days : PickEnd(d)
    \/ Tick

Spec == Init /\ [][Next]_vars

-----------------------------------------------------------------------------
(* update_figures called directly on a loaded table, with any pair of dates *)

PickerValues == {None, NaTStr} \cup {Iso(d) : d \in Days}

InitCalls ==
    /\ df \in CallTables
    /\ phase = "loaded"
    /\ now = 0
    /\ today = NaTDate
    /\ min_date = NaTDate
    /\ max_date = NaTDate
    /\ start_date = None
    /\ end_date = None
    /\ filtered_df = df
    /\ raw_graph = NoFigure
    /\ acc_graph = NoFigure
    /\ pending = "none"
    /\ last = "load_data"

\* One call update_figures(s, e); df["date"] raises KeyError when both dates
\* are given and the table has no date column.
CallUpdateFigures(s, e) ==
    /\ phase = "loaded"
    /\ phase' = "called"
    /\ start_date' = s
    /\ end_date' = e
    /\ IF s # None /\ e # None /\ DateCol \notin df.cols
       THEN /\ last' = "KeyError"
            /\ UNCHANGED <<filtered_df, raw_graph, acc_graph>>
       ELSE UpdateFigures(s, e)
    /\ UNCHANGED <<df, now, today, min_date, max_date, pending>>

NextCalls == \E s \in PickerValues, e \in PickerValues : CallUpdateFigures(s, e)

SpecCalls == InitCalls /\ [][NextCalls]_vars

-----------------------------------------------------------------------------
(* Properties *)

Durational == {p \in DOMAIN date_presets : ~date_presets[p].all}

IsNumeric(c) == c.k \in {"num", "numstr"}

\* A row is in the scope [s, e] when its date is known, both bounds are
\* dates, and its calendar day lies between them.
InRange(r, s, e) ==
    /\ ~r[DateCol].nat
    /\ s.k = "iso" /\ e.k = "iso"
    /\ s.day <= r[DateCol].day /\ r[DateCol].day <= e.day

RowsInScope(s, e) == SelectSeq(df.rows, LAMBDA r : InRange(r, s, e))

\* The sum of the first i entries of a column, a non-numeric entry counting 0.
RECURSIVE SumTo(_, _)
SumTo(col, i) ==
    IF i = 0 THEN 0
    ELSE SumTo(col, i - 1) + (IF IsNumeric(col[i]) THEN col[i].v ELSE 0)

TracesNamed(fig, name) == {i \in 1..Len(fig.traces) : fig.traces[i].name = name}

PresentSecondaries == {n \in SeriesNames \ {Primary} : n \in df.cols}

\* C1: update_figures called with two given bounds keeps exactly the rows whose
\* calendar day (time of day dropped) lies in [start_date, end_date], in table
\* order; called with an absent bound it keeps the whole table.
C1_RangeFilter ==
    last = "update_figures" =>
        IF start_date # None /\ end_date # None
        THEN /\ filtered_df.cols = df.cols
             /\ filtered_df.rows = RowsInScope(start_date, end_date)
        ELSE filtered_df = df

\* C1 witness: a row stamped 23:59 on end_date is kept, an earlier row is not.
C1_Witness ==
    /\ last = "update_figures"
    /\ start_date = Iso(8) /\ end_date = Iso(8)
    /\ Len(df.rows) = 2
    /\ df.rows[1][DateCol] = Timestamp(0, 0)
    /\ df.rows[2][DateCol] = Timestamp(8, 1)
    /\ filtered_df.rows = <<df.rows[2]>>

\* C2: in the accumulated figure every present secondary series has, at each
\* index i of the row scope, the sum of its values over rows 1..i of the scope
\* with non-numeric entries counted as 0; after update_figures the row scope is
\* the rows selected by the current bounds.
C2_Accumulation ==
    phase = "running" =>
        /\ \A n \in PresentSecondaries :
              \E t \in TracesNamed(acc_graph, AccName(n)) :
                  /\ Len(acc_graph.traces[t].y) = Len(filtered_df.rows)
                  /\ \A i \in 1..Len(filtered_df.rows) :
                        acc_graph.traces[t].y[i] = Num(SumTo(Column(filtered_df, n), i))
        /\ last = "update_figures" =>
              filtered_df.rows = RowsInScope(start_date, end_date)

\* C2 witness: the first table row is out of scope and the running sum starts
\* again at the first row in scope.
C2_Witness ==
    /\ last = "update_figures"
    /\ Len(df.rows) = 2
    /\ df.rows[1]["foreign"] = Num(6)
    /\ df.rows[2]["foreign"] = Num(4)
    /\ filtered_df.rows = <<df.rows[2]>>
    /\ \E t \in TracesNamed(acc_graph, AccName("foreign")) :
          acc_graph.traces[t].y = <<Num(4)>>

\* C3: in every state of the running application the two figures show the same
\* rows: all their traces have the same x, the primary traces are equal, and
\* each accumulated secondary trace is the running sum of the raw one.
C3_SameScope ==
    phase = "running" =>
        /\ \A i \in 1..Len(raw_graph.traces), j \in 1..Len(acc_graph.traces) :
              raw_graph.traces[i].x = acc_graph.traces[j].x
        /\ \A i \in TracesNamed(raw_graph, Primary) :
              \E j \in TracesNamed(acc_graph, Primary) :
                  raw_graph.traces[i] = acc_graph.traces[j]
        /\ \A n \in PresentSecondaries :
              \A i \in TracesNamed(raw_graph, n) :
                  \E j \in TracesNamed(acc_graph, AccName(n)) :
                      /\ Len(acc_graph.traces[j].y) = Len(raw_graph.traces[i].y)
                      /\ \A k \in 1..Len(raw_graph.traces[i].y) :
                            acc_graph.traces[j].y[k] = Num(SumTo(raw_graph.traces[i].y, k))

\* C3 witness: both figures rebuilt over a proper, non-empty part of the table.
C3_Witness ==
    /\ last = "update_figures"
    /\ Len(filtered_df.rows) = 1
    /\ Len(df.rows) = 2
    /\ Len(raw_graph.traces) = 4
    /\ Len(acc_graph.traces) = 4
    /\ raw_graph.traces[1].x.vals = <<filtered_df.rows[1][DateCol]>>

\* C4: selecting a durational preset of N days writes the bounds
\* (max(current day - N, min_date), current day), the current day being the
\* day the clock shows when the preset is selected.
C4_PresetFromCurrentDay ==
    [][\A p \in Durational :
          (update_date_range(p) /\ ~min_date.nat) =>
              /\ end_date' = Iso(now)
              /\ start_date' = Iso(IF now - date_presets[p].days >= min_date.day
                                   THEN now - date_presets[p].days
                                   ELSE min_date.day)]_vars

\* C5: right after any preset selection the bounds satisfy
\* min_date <= start <= end <= max_date.
C5_Clamped ==
    (phase = "running" /\ last \in {"all", "durational"} /\ ~min_date.nat) =>
        /\ min_date.day <= start_date.day
        /\ start_date.day <= end_date.day
        /\ end_date.day <= max_date.day

\* C6: update_date_range called with a value that is no preset writes neither
\* bound, queues no update_figures, and leaves the row scope and both figures
\* as they were.
C6_UnknownPresetNoOp ==
    [][\A p \in PresetInputs \ DOMAIN date_presets :
          update_date_range(p) =>
              /\ UNCHANGED <<start_date, end_date, filtered_df, raw_graph, acc_graph>>
              /\ pending' = "none"]_vars

\* C6 witness: an unknown preset was submitted while the bounds were not the
\* initial ones.
C6_Witness ==
    /\ last = "no_update"
    /\ pending = "none"
    /\ start_date = Iso(8)
    /\ end_date = Iso(8)
    /\ min_date = Date(0)

\* C7: each figure holds exactly one trace per requested series present in the
\* table and none for an absent one, and update_figures fails only when it has
\* to read a missing date column, never for a missing series column.
C7_TracePerPresentSeries ==
    /\ last = "update_figures" =>
          /\ Len(raw_graph.traces) = Cardinality(SeriesNames \cap df.cols)
          /\ Len(acc_graph.traces) = Cardinality(SeriesNames \cap df.cols)
          /\ \A n \in SeriesNames :
                Cardinality(TracesNamed(raw_graph, n)) = (IF n \in df.cols THEN 1 ELSE 0)
          /\ Cardinality(TracesNamed(acc_graph, Primary)) = (IF Primary \in df.cols THEN 1 ELSE 0)
          /\ \A n \in SeriesNames \ {Primary} :
                Cardinality(TracesNamed(acc_graph, AccName(n))) = (IF n \in df.cols THEN 1 ELSE 0)
    /\ (phase = "called" /\ (DateCol \in df.cols \/ start_date = None \/ end_date = None)) =>
          last = "update_figures"

\* C7 witness: figures built on a table with two of the four series and no
\* date column.
C7_Witness ==
    /\ last = "update_figures"
    /\ df.cols = {"index", "individual"}
    /\ Len(df.rows) = 2
    /\ Len(raw_graph.traces) = 2
    /\ Len(acc_graph.traces) = 2

\* The raw projection of one cell: a number as it is, anything else missing.
Projected(c) == IF IsNumeric(c) THEN Num(c.v) ELSE NaN

\* C8: create_app succeeds on a table without a date column.
C8_NoDateColumnStarts == (DateCol \notin df.cols) => phase # "failed"

\* C9 (as stated): every trace of the raw figure, the primary one included, is
\* the raw projection of its column over the row scope.
C9_AllRawCoerced ==
    last = "update_figures" =>
        \A t \in 1..Len(raw_graph.traces) :
            /\ Len(raw_graph.traces[t].y) = Len(filtered_df.rows)
            /\ \A i \in 1..Len(filtered_df.rows) :
                  raw_graph.traces[t].y[i] =
                      Projected(filtered_df.rows[i][raw_graph.traces[t].name])

\* C9 (amended): every secondary trace of the raw figure is the raw projection
\* of its column over the row scope; the primary trace is its column as it is,
\* a non-numeric entry staying what it was.
C9_SecondaryRawCoerced ==
    last = "update_figures" =>
        \A t \in 1..Len(raw_graph.traces) :
            /\ Len(raw_graph.traces[t].y) = Len(filtered_df.rows)
            /\ \A i \in 1..Len(filtered_df.rows) :
                  raw_graph.traces[t].y[i] =
                      IF raw_graph.traces[t].name = Primary
                      THEN filtered_df.rows[i][Primary]
                      ELSE Projected(filtered_df.rows[i][raw_graph.traces[t].name])

\* C9 witness: a row whose cells are non-numeric in the primary and in a
\* secondary column, between two numeric rows.
C9_Witness ==
    /\ last = "update_figures"
    /\ Len(filtered_df.rows) = 2
    /\ \E p \in TracesNamed(raw_graph, Primary), f \in TracesNamed(raw_graph, "foreign") :
          /\ raw_graph.traces[p].y = <<Num(5), StrX>>
          /\ raw_graph.traces[f].y = <<Num(6), NaN>>

\* C10: the update_figures run that follows the "all" preset (the first
\* render included) keeps every row of the table.
C10_AllIsIdentity ==
    [][(update_figures /\ last = "all" /\ ~min_date.nat) => filtered_df' = df]_vars

====
